---------------------------- MODULE Spec2Model ----------------------------
(***************************************************************************)
(* A model of koishi.py: the two trajectory generators                     *)
(* (EllipticTrajectory, InterpolatedTrajectory) and the sampling loop of   *)
(* main().                                                                  *)
(*                                                                         *)
(* Numbers.  Python floats are modelled by exact rationals <<n, d>> in     *)
(* lowest terms (d > 0).  Times (durations, steps, elapsed time) are       *)
(* integers: one unit of simulation time.  Angles are integers counting    *)
(* quarter turns, so that PI is 2 units and cos/sin take the exact values  *)
(* 1, 0, -1, 0.  Floating-point rounding is therefore outside the model;   *)
(* the '.4' formatting of main() is inside it (Fmt4).                      *)
(***************************************************************************)
EXTENDS Integers, Sequences, FiniteSets, TLC

(***************************************************************************)
(* Bounds of the model.                                                    *)
(***************************************************************************)
MaxLen == 3      \* longest waypoint list
MaxDur == 2      \* largest waypoint duration
MaxCoord == 2    \* waypoint coordinates are in 0..MaxCoord
MaxStep == 3     \* largest step handed to InterpolatedTrajectory.get_delta
MaxLaps == 2     \* an interpolator is advanced for at most MaxLaps laps
MaxEllStep == 3  \* an ellipse step is up to MaxEllStep sixths of the wrap bound
MaxEllCalls == 5 \* an ellipse is advanced at most MaxEllCalls times
MaxChildStep == 2 \* largest step * ELLIPSE_SCALE of main(), in quarter turns
MaxIter == 3     \* largest iteration count of main()

(***************************************************************************)
(* Exact arithmetic.                                                       *)
(***************************************************************************)
Abs(n) == IF n < 0 THEN 0 - n ELSE n

RECURSIVE GCD(_, _)
GCD(a, b) == IF b = 0 THEN a ELSE GCD(b, a % b)

\* The rational n / d (d # 0) in lowest terms with a positive denominator.
Rat(n, d) ==
  LET g == GCD(Abs(n), Abs(d))
      s == IF d < 0 THEN 0 - 1 ELSE 1
  IN  <<(s * n) \div g, (s * d) \div g>>

RatOfInt(n) == <<n, 1>>
RatAdd(p, q) == Rat(p[1] * q[2] + q[1] * p[2], p[2] * q[2])
RatSub(p, q) == Rat(p[1] * q[2] - q[1] * p[2], p[2] * q[2])
RatLess(p, q) == p[1] * q[2] < q[1] * p[2]
RatLeq(p, q) == p[1] * q[2] <= q[1] * p[2]

\* Component-wise difference of two positions, as get_delta computes it.
PosSub(p, q) == <<RatSub(p[1], q[1]), RatSub(p[2], q[2])>>
PosAdd(p, q) == <<RatAdd(p[1], q[1]), RatAdd(p[2], q[2])>>


(***************************************************************************)
(* State.                                                                  *)
(*   pc        where the program is: "start" (nothing constructed yet),    *)
(*             "ready" (objects constructed, no call in progress),         *)
(*             "raised" (an exception left the program), "hung" (a call    *)
(*             never returned), "done" (main() returned)                   *)
(*   nodes_arg the list handed to InterpolatedTrajectory(...)              *)
(*   exc       the exception raised, "none" if none                        *)
(*   parent    the InterpolatedTrajectory object                           *)
(*   before, step_in, elapsed                                              *)
(*             history of the interpolator: its fields before the last     *)
(*             call, that call's step, and the sum of all steps so far     *)
(*   et        the EllipticTrajectory objects (et_1, et_2 of main())       *)
(*   et_total, et_calls, et_wide                                           *)
(*             history of each ellipse: the sum of its steps, their        *)
(*             number, and whether one of them was larger in magnitude     *)
(*             than the wrap bound                                         *)
(*   conf      what main() fixes before its loop: the rotation of et_1,    *)
(*             step * PARENT_SCALE, step * ELLIPSE_SCALE and the count     *)
(*   path      path_1, path_2 of main(): the commands pushed so far        *)
(*   i         the loop variable of main()                                 *)
(***************************************************************************)
VARIABLES pc, nodes_arg, exc, parent, before, step_in, elapsed,
          et, et_total, et_calls, et_wide, conf, path, i

vars == <<pc, nodes_arg, exc, parent, before, step_in, elapsed,
          et, et_total, et_calls, et_wide, conf, path, i>>

interpVars == <<nodes_arg, parent, before, step_in, elapsed>>
ellVars == <<et, et_total, et_calls, et_wide>>
mainVars == <<conf, path, i>>

\* No object (a name not yet bound).
NoObject == [nodes |-> <<>>]

\* main() not entered: nothing fixed.
NoConf == [count |-> 0]

(***************************************************************************)
(* class EllipticTrajectory.  Angles count quarter turns: PI is 2 units,   *)
(* the period 2 * PI is 4, and cos and sin are exact.                      *)
(***************************************************************************)
PI == 2
WrapFactor == 1000

\* 1000 * PI (lines 33-36)
WrapBound == WrapFactor * PI

Cos(t) == CASE t % 4 = 0 -> 1
            [] t % 4 = 2 -> 0 - 1
            [] OTHER -> 0

Sin(t) == CASE t % 4 = 1 -> 1
            [] t % 4 = 3 -> 0 - 1
            [] OTHER -> 0

\* Faulty variant of Wrap: t = -1000 * PI is left as it is.
WrapStrictBelow(t) ==
  IF t >= WrapBound THEN t - WrapBound
  ELSE IF t < 0 - WrapBound THEN t + WrapBound
  ELSE t

\* Faulty variant of Wrap: the bound is 1001 * PI, no multiple of the period.
WrapOddBound(t) ==
  IF t >= WrapBound + PI THEN t - (WrapBound + PI)
  ELSE IF t <= 0 - (WrapBound + PI) THEN t + (WrapBound + PI)
  ELSE t

\* Faulty variant of Wrap: the correction is repeated until t is within the
\* bounds (a while for the if of lines 33-36).
RECURSIVE WrapRepeated(_)
WrapRepeated(t) ==
  IF t >= WrapBound THEN WrapRepeated(t - WrapBound)
  ELSE IF t <= 0 - WrapBound THEN WrapRepeated(t + WrapBound)
  ELSE t

\* The wraparound of lines 33-36.
Wrap(t) ==
  IF t >= WrapBound THEN t - WrapBound
  ELSE IF t <= 0 - WrapBound THEN t + WrapBound
  ELSE t

\* Faulty variant of ET_get_next_position: line 37 is missing, last_pos
\* is not updated.
ETNextPositionKeepsLast(self, step) ==
  LET t1 == self.t + step
      x == self.x_length * Cos(t1) * Cos(self.rotation)
             - self.y_length * Sin(t1) * Sin(self.rotation)
      y == self.x_length * Cos(t1) * Sin(self.rotation)
             + self.y_length * Sin(t1) * Cos(self.rotation)
  IN  [self EXCEPT !.t = Wrap(t1),
                   !.curr_pos = <<RatOfInt(x), RatOfInt(y)>>]

\* EllipticTrajectory.get_next_position: the object after the call (the
\* value returned is its curr_pos).
ET_get_next_position(self, step) ==
  LET t1 == self.t + step
      x == self.x_length * Cos(t1) * Cos(self.rotation)
             - self.y_length * Sin(t1) * Sin(self.rotation)
      y == self.x_length * Cos(t1) * Sin(self.rotation)
             + self.y_length * Sin(t1) * Cos(self.rotation)
  IN  [self EXCEPT !.t = Wrap(t1),
                   !.last_pos = self.curr_pos,
                   !.curr_pos = <<RatOfInt(x), RatOfInt(y)>>]

\* EllipticTrajectory.get_delta: the object after the call and the delta.
ET_get_delta(self, step) ==
  LET s1 == ET_get_next_position(self, step)
  IN  [self |-> s1, delta |-> PosSub(s1.curr_pos, s1.last_pos)]

\* Faulty variant of EllipticTrajectory: lines 23-24 only call
\* get_next_position(0), its result is not stored.
EllipticTrajectoryNoSync(rotation, x_length, y_length) ==
  LET s0 == [rotation |-> rotation, x_length |-> x_length, y_length |-> y_length,
             t |-> 0,
             curr_pos |-> <<RatOfInt(0), RatOfInt(0)>>,
             last_pos |-> <<RatOfInt(0), RatOfInt(0)>>]
  IN  ET_get_next_position(s0, 0)

\* EllipticTrajectory.__init__
EllipticTrajectory(rotation, x_length, y_length) ==
  LET s0 == [rotation |-> rotation, x_length |-> x_length, y_length |-> y_length,
             t |-> 0,
             curr_pos |-> <<RatOfInt(0), RatOfInt(0)>>,
             last_pos |-> <<RatOfInt(0), RatOfInt(0)>>]
      s1 == ET_get_next_position(s0, 0)
  IN  [s1 EXCEPT !.last_pos = s1.curr_pos, !.curr_pos = s1.curr_pos]

\* The axis lengths main() gives its ellipses (line 177).
X_LENGTH == 200
Y_LENGTH == 25

(***************************************************************************)
(* class InterpolatedTrajectory.  Indices are 0-based as in the source;    *)
(* TLA+ sequences are 1-based, hence nodes[index + 1].                     *)
(***************************************************************************)

\* Faulty variant of ScanNodes: only nodes with fewer than 3 values are refused.
RECURSIVE ScanNodesAtLeast3(_, _, _)
ScanNodesAtLeast3(nodes, k, found_nonzero_time) ==
  IF k > Len(nodes) THEN IF found_nonzero_time THEN "found" ELSE "notfound"
  ELSE IF Len(nodes[k]) < 3 THEN "ValueError"
  ELSE ScanNodesAtLeast3(nodes, k + 1, found_nonzero_time \/ nodes[k][3] # 0)

\* for node in nodes: the arity check and the search for a non-zero time
\* (lines 73-77), from the k-th node on.  "ValueError" as soon as a node has
\* not 3 values, else whether a non-zero time was found.
RECURSIVE ScanNodes(_, _, _)
ScanNodes(nodes, k, found_nonzero_time) ==
  IF k > Len(nodes) THEN IF found_nonzero_time THEN "found" ELSE "notfound"
  ELSE IF Len(nodes[k]) # 3 THEN "ValueError"
  ELSE ScanNodes(nodes, k + 1, found_nonzero_time \/ nodes[k][3] # 0)

_get_next_index(self) ==
  IF self.index + 1 >= Len(self.nodes) THEN 0 ELSE self.index + 1

\* Faulty variant of _go_to_next_index: the target time is not updated.
GoToNextIndexStaleTarget(self) ==
  LET s1 == [self EXCEPT !.index = self.next_index]
  IN  [s1 EXCEPT !.next_index = _get_next_index(s1)]

\* Faulty variant of _go_to_next_index: the list itself is rotated, its head
\* moved to its end, and index stays where it is.
GoToNextIndexRotatesNodes(self) ==
  LET s1 == [self EXCEPT !.nodes = Append(Tail(self.nodes), Head(self.nodes))]
  IN  [s1 EXCEPT !.target_time = s1.nodes[s1.index + 1][3]]

\* Faulty variant of _go_to_next_index: next_index is computed before index
\* is updated (lines 96 and 97 exchanged).
GoToNextIndexStaleNext(self) ==
  LET s1 == [self EXCEPT !.next_index = _get_next_index(self)]
      s2 == [s1 EXCEPT !.index = self.next_index]
  IN  [s2 EXCEPT !.target_time = s2.nodes[s2.index + 1][3]]

_go_to_next_index(self) ==
  LET s1 == [self EXCEPT !.index = self.next_index]
      s2 == [s1 EXCEPT !.next_index = _get_next_index(s1)]
  IN  [s2 EXCEPT !.target_time = s2.nodes[s2.index + 1][3]]

\* InterpolatedTrajectory.__init__: the exception raised ("none" if none)
\* and the object constructed.
InterpolatedTrajectory(nodes) ==
  IF ScanNodes(nodes, 1, FALSE) # "found"
  THEN [exc |-> "ValueError", self |-> NoObject]
  ELSE LET s0 == [nodes |-> nodes, index |-> 0, next_index |-> 0, time |-> 0,
                  last_pos |-> <<RatOfInt(nodes[1][1]), RatOfInt(nodes[1][2])>>,
                  curr_pos |-> <<RatOfInt(nodes[1][1]), RatOfInt(nodes[1][2])>>,
                  target_time |-> nodes[1][3]]
       IN  [exc |-> "none", self |-> [s0 EXCEPT !.next_index = _get_next_index(s0)]]

\* Enough loop iterations for every call that returns: a lap of the list
\* shortens the remaining step by the lap's duration, or the loop never exits.
LoopFuel(self, step) == Len(self.nodes) * (step + MaxDur + 3)

\* while self.target_time == 0.0: self._go_to_next_index()   (lines 104-105)
RECURSIVE WhileZeroTime(_, _)
WhileZeroTime(self, fuel) ==
  IF self.target_time # 0 THEN [exit |-> TRUE, self |-> self]
  ELSE IF fuel = 0 THEN [exit |-> FALSE, self |-> self]
  ELSE WhileZeroTime(_go_to_next_index(self), fuel - 1)

\* Faulty variant of StillRemaining: > for >=.
StillRemainingStrict(self, remaining_step) == remaining_step > self.target_time

\* The loop condition of line 114.
StillRemaining(self, remaining_step) == remaining_step >= self.target_time

\* while remaining_step >= self.target_time: ...             (lines 114-123)
RECURSIVE WhileRemaining(_, _, _)
WhileRemaining(self, remaining_step, fuel) ==
  IF ~StillRemaining(self, remaining_step)
  THEN [exit |-> TRUE, self |-> self, remaining_step |-> remaining_step]
  ELSE IF fuel = 0
  THEN [exit |-> FALSE, self |-> self, remaining_step |-> remaining_step]
  ELSE LET r1 == remaining_step - self.target_time
           r2 == IF r1 < 0 THEN 0 ELSE r1
       IN  WhileRemaining(_go_to_next_index(self), r2, fuel - 1)

\* Faulty variant of Interpolate: the division by target_time is missing.
InterpolateNoDivision(self) ==
  LET start_x == self.nodes[self.index + 1][1]
      delta_x == self.nodes[self.next_index + 1][1] - start_x
      start_y == self.nodes[self.index + 1][2]
      delta_y == self.nodes[self.next_index + 1][2] - start_y
  IN  <<Rat(start_x + delta_x * self.time, 1),
        Rat(start_y + delta_y * self.time, 1)>>

\* The position on the current segment (lines 130-137).
Interpolate(self) ==
  LET start_x == self.nodes[self.index + 1][1]
      delta_x == self.nodes[self.next_index + 1][1] - start_x
      start_y == self.nodes[self.index + 1][2]
      delta_y == self.nodes[self.next_index + 1][2] - start_y
  IN  <<Rat(start_x * self.target_time + delta_x * self.time, self.target_time),
        Rat(start_y * self.target_time + delta_y * self.time, self.target_time)>>

\* Faulty variant of InterpolateStep: line 135 is missing, last_pos is not
\* updated.
InterpolateStepKeepsLast(self) ==
  IF self.target_time = 0
  THEN [outcome |-> "ZeroDivisionError", self |-> self]
  ELSE [outcome |-> "return", self |-> [self EXCEPT !.curr_pos = Interpolate(self)]]

\* Lines 129-139: "ZeroDivisionError" when the division has a zero divisor.
InterpolateStep(self) ==
  IF self.target_time = 0
  THEN [outcome |-> "ZeroDivisionError", self |-> [self EXCEPT !.last_pos = self.curr_pos]]
  ELSE [outcome |-> "return",
        self |-> [self EXCEPT !.last_pos = self.curr_pos, !.curr_pos = Interpolate(self)]]

\* Faulty variant of RemainingStep: the time already elapsed is forgotten.
RemainingStepNoElapsed(self, step) == step - self.target_time

\* Faulty variant of ReachesTarget: > for >=.
ReachesTargetStrict(self, step) == self.time + step > self.target_time

\* remaining_step = step - (self.target_time - self.time)        (line 110)
RemainingStep(self, step) == step - (self.target_time - self.time)

\* The condition of line 109: the step reaches the end of the segment.
ReachesTarget(self, step) == self.time + step >= self.target_time

\* Faulty variant of get_next_position: line 128 reads self.time = step.
GetNextPositionTimeReset(self, step) ==
  LET z == WhileZeroTime(self, LoopFuel(self, step))
      s0 == z.self
  IN  IF ~z.exit THEN [outcome |-> "hang", self |-> self]
      ELSE IF ReachesTarget(s0, step)
      THEN LET w == WhileRemaining(_go_to_next_index(s0), RemainingStep(s0, step),
                                   LoopFuel(self, step))
           IN  IF ~w.exit THEN [outcome |-> "hang", self |-> self]
               ELSE InterpolateStep([w.self EXCEPT !.time = w.remaining_step])
      ELSE InterpolateStep([s0 EXCEPT !.time = step])

\* InterpolatedTrajectory.get_next_position: outcome "return" with the object
\* after the call, "hang" when a loop never exits, or the exception raised.
get_next_position(self, step) ==
  LET z == WhileZeroTime(self, LoopFuel(self, step))
      s0 == z.self
  IN  IF ~z.exit THEN [outcome |-> "hang", self |-> self]
      ELSE IF ReachesTarget(s0, step)
      THEN LET w == WhileRemaining(_go_to_next_index(s0), RemainingStep(s0, step),
                                   LoopFuel(self, step))
           IN  IF ~w.exit THEN [outcome |-> "hang", self |-> self]
               ELSE InterpolateStep([w.self EXCEPT !.time = w.remaining_step])
      ELSE InterpolateStep([s0 EXCEPT !.time = s0.time + step])

\* InterpolatedTrajectory.get_delta: get_next_position, then curr - last.
get_delta(self, step) ==
  LET r == get_next_position(self, step)
  IN  [outcome |-> r.outcome, self |-> r.self,
       delta |-> IF r.outcome = "return"
                 THEN PosSub(r.self.curr_pos, r.self.last_pos) ELSE <<>>]

(***************************************************************************)
(* The lists a caller may hand to the constructor.  The k-th node of a     *)
(* list sits at (a*k mod m, b*k mod m) for a layout <<a, b>>,              *)
(* m = MaxCoord + 1.  A shape <<n, t>> is a node's number of values and    *)
(* its time.                                                               *)
(***************************************************************************)
Layouts == {<<a, MaxCoord - a>> : a \in 0..MaxCoord}
WellFormedShapes == {3} \X (0..MaxDur)
AnyShapes == {<<2, 0>>} \cup ({3, 4} \X ((0 - 1)..MaxDur))

NodeOf(k, lay, shape) ==
  LET x == (lay[1] * k) % (MaxCoord + 1)
      y == (lay[2] * k) % (MaxCoord + 1)
  IN  CASE shape[1] = 2 -> <<x, y>>
        [] shape[1] = 3 -> <<x, y, shape[2]>>
        [] OTHER -> <<x, y, shape[2], 0>>

\* The lists of len nodes in layout lay with shapes from the set shapes.
RECURSIVE ListsOfLen(_, _, _)
ListsOfLen(len, lay, shapes) ==
  IF len = 0 THEN {<<>>}
  ELSE {Append(l, NodeOf(len, lay, sh)) :
           l \in ListsOfLen(len - 1, lay, shapes), sh \in shapes}

\* Lists of 3-value nodes with times >= 0 (the spec's waypoints).
WaypointLists ==
  UNION {ListsOfLen(len, lay, WellFormedShapes) : len \in 0..MaxLen, lay \in Layouts}

\* Lists of any nodes: 2, 3 or 4 values, times from -1 on.
AnyLists ==
  UNION {ListsOfLen(len, <<1, MaxCoord>>, AnyShapes) : len \in 0..MaxLen}

\* Sum of the absolute values of the times of a list of 3-value nodes.
RECURSIVE SumAbsTimes(_, _)
SumAbsTimes(nodes, k) ==
  IF k > Len(nodes) THEN 0 ELSE Abs(nodes[k][3]) + SumAbsTimes(nodes, k + 1)

(***************************************************************************)
(* Specification Spec: one interpolator, constructed from a waypoint list   *)
(* then advanced by non-negative steps.                                    *)
(***************************************************************************)
InitWith(lists) ==
  /\ pc = "start"
  /\ nodes_arg \in lists
  /\ exc = "none"
  /\ parent = NoObject
  /\ before = NoObject
  /\ step_in = 0
  /\ elapsed = 0
  /\ et = <<>>
  /\ et_total = <<>>
  /\ et_calls = <<>>
  /\ et_wide = FALSE
  /\ conf = NoConf
  /\ path = <<>>
  /\ i = 0

\* parent = InterpolatedTrajectory(nodes_arg)
Construct ==
  /\ pc = "start"
  /\ LET c == InterpolatedTrajectory(nodes_arg)
     IN  /\ exc' = c.exc
         /\ parent' = c.self
         /\ pc' = IF c.exc = "none" THEN "ready" ELSE "raised"
  /\ UNCHANGED <<nodes_arg, before, step_in, elapsed>>
  /\ UNCHANGED <<ellVars, mainVars>>

\* parent.get_delta(step)
Advance(step) ==
  /\ pc = "ready"
  /\ elapsed + step <= MaxLaps * SumAbsTimes(parent.nodes, 1)
  /\ \E r \in {get_delta(parent, step)} :
         /\ pc' = CASE r.outcome = "return" -> "ready"
                    [] r.outcome = "hang" -> "hung"
                    [] OTHER -> "raised"
         /\ exc' = IF r.outcome \in {"return", "hang"} THEN exc ELSE r.outcome
         /\ parent' = r.self
  /\ before' = parent
  /\ step_in' = step
  /\ elapsed' = elapsed + step
  /\ UNCHANGED <<nodes_arg, ellVars, mainVars>>

Next ==
  \/ Construct
  \/ \E step \in 0..MaxStep : Advance(step)

Init == InitWith(WaypointLists)

Spec == Init /\ [][Next]_vars

(***************************************************************************)
(* Specification SpecCtor: the same program, handed any list: nodes of 2,  *)
(* 3 or 4 values, negative times.                                          *)
(***************************************************************************)
CtorInit == InitWith(AnyLists)

SpecCtor == CtorInit /\ [][Next]_vars


(***************************************************************************)
(* Specification SpecEll: one EllipticTrajectory, advanced by steps that   *)
(* are sixths of the wrap bound, the wrap bound itself or twice it, in     *)
(* either direction.                                                       *)
(***************************************************************************)
EllSteps ==
  {k * (WrapBound \div 6) : k \in (0 - MaxEllStep)..MaxEllStep}
    \cup {k * WrapBound : k \in (0 - 2)..2}

EllInit ==
  /\ pc = "ready"
  /\ nodes_arg = <<>>
  /\ exc = "none"
  /\ parent = NoObject
  /\ before = NoObject
  /\ step_in = 0
  /\ elapsed = 0
  /\ \E rotation \in 0..3 : et = <<EllipticTrajectory(rotation, X_LENGTH, Y_LENGTH)>>
  /\ et_total = <<0>>
  /\ et_calls = <<0>>
  /\ et_wide = FALSE
  /\ conf = NoConf
  /\ path = <<>>
  /\ i = 0

\* et[c].get_delta(step)
EllAdvance(c, step) ==
  /\ pc = "ready"
  /\ et_calls[c] < MaxEllCalls
  /\ et' = [et EXCEPT ![c] = ET_get_delta(et[c], step).self]
  /\ et_total' = [et_total EXCEPT ![c] = et_total[c] + step]
  /\ et_calls' = [et_calls EXCEPT ![c] = et_calls[c] + 1]
  /\ et_wide' = (et_wide \/ Abs(step) > WrapBound)
  /\ UNCHANGED <<pc, exc, interpVars, mainVars>>

EllNext == \E c \in DOMAIN et : \E step \in EllSteps : EllAdvance(c, step)

SpecEll == EllInit /\ [][EllNext]_vars

(***************************************************************************)
(* main().  Coordinates count thousandths here (HEART_NODES gives three    *)
(* decimals), so the axis lengths 200 and 25 are 200000 and 25000 units;   *)
(* rounding to 4 significant digits commutes with that change of unit.     *)
(* The angle grid cannot hold PI / 4 or 0.005 * 2 * PI: the rotation of    *)
(* et_1 and the two products step * PARENT_SCALE and step * ELLIPSE_SCALE  *)
(* are parameters (conf); et_2 is et_1 turned by PI / 2 as in line 178.    *)
(***************************************************************************)
Thousandths == 1000

\* num / den rounded to the nearest integer, ties to even.
RoundHalfEven(num, den) ==
  LET fl == num \div den
      r2 == 2 * (num % den)
  IN  IF r2 < den THEN fl
      ELSE IF r2 > den THEN fl + 1
      ELSE IF fl % 2 = 0 THEN fl ELSE fl + 1

\* Powers of ten up and down with 1000 <= (num * up) / (den * down) < 10000,
\* for num, den > 0.
RECURSIVE ScaleTo4Digits(_, _, _, _)
ScaleTo4Digits(num, den, up, down) ==
  IF num * up >= 10000 * den * down THEN ScaleTo4Digits(num, den, up, down * 10)
  ELSE IF num * up < 1000 * den * down THEN ScaleTo4Digits(num, den, up * 10, down)
  ELSE <<up, down>>

\* The number the text '{:.4}'.format(v) denotes: v rounded to 4 significant
\* digits (lines 185-186, 200-201).
Fmt4(v) ==
  IF v[1] = 0 THEN RatOfInt(0)
  ELSE LET sc == ScaleTo4Digits(Abs(v[1]), v[2], 1, 1)
           q == RoundHalfEven(Abs(v[1]) * sc[1], v[2] * sc[2])
           sign == IF v[1] < 0 THEN 0 - 1 ELSE 1
       IN  Rat(sign * q * sc[2], sc[1])

\* 'M {0:.4} {1:.4}'.format(parent.curr_pos[0] + et.curr_pos[0], ...)
MoveCommand(parent_pos, et_pos) ==
  [op |-> "M", x |-> Fmt4(RatAdd(parent_pos[1], et_pos[1])),
               y |-> Fmt4(RatAdd(parent_pos[2], et_pos[2]))]

\* Faulty variant of LineCommand: the parent's delta is left out.
LineCommandChildOnly(parent_delta, et_delta) ==
  [op |-> "l", x |-> Fmt4(et_delta[1]), y |-> Fmt4(et_delta[2])]

\* 'l {0:.4} {1:.4}'.format(parent_delta[0] + et_delta[0], ...)
LineCommand(parent_delta, et_delta) ==
  [op |-> "l", x |-> Fmt4(RatAdd(parent_delta[1], et_delta[1])),
               y |-> Fmt4(RatAdd(parent_delta[2], et_delta[2]))]

\* Faulty variant of LoopContinues: one iteration too many.
LoopContinuesOneMore(done, count) == done <= count

\* for i in range(nodes): whether an iteration follows `done` iterations.
LoopContinues(done, count) == done < count

\* The lists main() may hold in place of HEART_NODES.
MainLists ==
  UNION {ListsOfLen(len, <<1, MaxCoord>>, WellFormedShapes) : len \in 0..(MaxLen - 1)}

MainInit ==
  /\ pc = "start"
  /\ nodes_arg \in MainLists
  /\ exc = "none"
  /\ parent = NoObject
  /\ before = NoObject
  /\ step_in = 0
  /\ elapsed = 0
  /\ et = <<>>
  /\ et_total = <<>>
  /\ et_calls = <<>>
  /\ et_wide = FALSE
  /\ conf \in [rotation : 0..3, parent_step : 1..MaxStep,
               child_step : 1..MaxChildStep, count : 1..MaxIter]
  /\ path = <<>>
  /\ i = 0

\* Lines 175-191: the three objects, the two paths and their 'M' commands.
MainSetup ==
  /\ pc = "start"
  /\ conf # NoConf
  /\ LET et_1 == EllipticTrajectory(conf.rotation, X_LENGTH * Thousandths,
                                    Y_LENGTH * Thousandths)
         et_2 == EllipticTrajectory(conf.rotation + PI \div 2, X_LENGTH * Thousandths,
                                    Y_LENGTH * Thousandths)
         c == InterpolatedTrajectory(nodes_arg)
     IN  /\ et' = <<et_1, et_2>>
         /\ et_total' = <<0, 0>>
         /\ et_calls' = <<0, 0>>
         /\ exc' = c.exc
         /\ parent' = c.self
         /\ IF c.exc = "none"
            THEN /\ pc' = "loop"
                 /\ path' = << <<MoveCommand(c.self.curr_pos, et_1.curr_pos)>>,
                               <<MoveCommand(c.self.curr_pos, et_2.curr_pos)>> >>
            ELSE /\ pc' = "raised"
                 /\ path' = path
  /\ UNCHANGED <<nodes_arg, before, step_in, elapsed, et_wide, conf, i>>

\* Lines 193-201: one iteration of the loop.
MainIter ==
  /\ pc = "loop"
  /\ LoopContinues(i, conf.count)
  /\ \E pd \in {get_delta(parent, conf.parent_step)} :
       /\ parent' = pd.self
       /\ before' = parent
       /\ step_in' = conf.parent_step
       /\ elapsed' = elapsed + conf.parent_step
       /\ IF pd.outcome = "return"
          THEN LET d1 == ET_get_delta(et[1], conf.child_step)
                   d2 == ET_get_delta(et[2], conf.child_step)
               IN  /\ et' = <<d1.self, d2.self>>
                   /\ et_total' = <<et_total[1] + conf.child_step,
                                    et_total[2] + conf.child_step>>
                   /\ et_calls' = <<et_calls[1] + 1, et_calls[2] + 1>>
                   /\ path' = <<Append(path[1], LineCommand(pd.delta, d1.delta)),
                                Append(path[2], LineCommand(pd.delta, d2.delta))>>
                   /\ i' = i + 1
                   /\ UNCHANGED <<pc, exc>>
          ELSE /\ pc' = IF pd.outcome = "hang" THEN "hung" ELSE "raised"
               /\ exc' = IF pd.outcome = "hang" THEN exc ELSE pd.outcome
               /\ UNCHANGED <<et, et_total, et_calls, path, i>>
  /\ UNCHANGED <<nodes_arg, et_wide, conf>>

\* Lines 203-205: the loop is over, the drawing is saved.
MainFinish ==
  /\ pc = "loop"
  /\ ~LoopContinues(i, conf.count)
  /\ pc' = "done"
  /\ UNCHANGED <<exc, interpVars, ellVars, mainVars>>

MainNext == MainSetup \/ MainIter \/ MainFinish

SpecMain == MainInit /\ [][MainNext]_vars

(***************************************************************************)
(* Vocabulary of the claims about the interpolator.                        *)
(***************************************************************************)

\* Every node has exactly three values.
AllThreeValues(nodes) == \A k \in 1..Len(nodes) : Len(nodes[k]) = 3

\* A valid waypoint list: length >= 1, three values per waypoint, durations
\* >= 0, at least one duration > 0.
ValidList(nodes) ==
  /\ Len(nodes) >= 1
  /\ AllThreeValues(nodes)
  /\ \A k \in 1..Len(nodes) : nodes[k][3] >= 0
  /\ \E k \in 1..Len(nodes) : nodes[k][3] > 0

\* Sum of all waypoint durations, from the k-th waypoint on.
RECURSIVE TotalDuration(_, _)
TotalDuration(nodes, k) ==
  IF k > Len(nodes) THEN 0 ELSE nodes[k][3] + TotalDuration(nodes, k + 1)

\* The (x, y) of the k-th waypoint (k counted from 1).
WaypointPos(nodes, k) == <<RatOfInt(nodes[k][1]), RatOfInt(nodes[k][2])>>

\* At least one get_delta call has returned.
Advanced == pc = "ready" /\ before # NoObject

\* The walk the spec describes, on a valid list: from waypoint k (counted
\* from 1) with b time units to spend, zero-duration waypoints are passed, a
\* segment of duration <= b is crossed, and the walk ends <<k, b>> in the
\* first segment longer than what is left.
RECURSIVE Walk(_, _, _)
Walk(nodes, k, b) ==
  LET next == IF k >= Len(nodes) THEN 1 ELSE k + 1
  IN  IF nodes[k][3] = 0 THEN Walk(nodes, next, b)
      ELSE IF b >= nodes[k][3] THEN Walk(nodes, next, b - nodes[k][3])
      ELSE <<k, b>>

\* Whether that walk passes a zero-duration waypoint.
RECURSIVE WalkPassesZero(_, _, _)
WalkPassesZero(nodes, k, b) ==
  LET next == IF k >= Len(nodes) THEN 1 ELSE k + 1
  IN  IF nodes[k][3] = 0 THEN TRUE
      ELSE IF b >= nodes[k][3] THEN WalkPassesZero(nodes, next, b - nodes[k][3])
      ELSE FALSE

\* The last call walked across a zero-duration waypoint.
LastCallPassedZero ==
  /\ Advanced
  /\ ValidList(nodes_arg)
  /\ WalkPassesZero(nodes_arg, before.index + 1, before.time + step_in)

(***************************************************************************)
(* C1.  Constructing an InterpolatedTrajectory from a list of 3-value      *)
(* nodes none of which has a time greater than 0 (the empty list           *)
(* included) raises ValueError and produces no object.                     *)
(* The code compares the time with != 0.0, so a list whose times are       *)
(* negative is accepted: TLC refutes this statement.                       *)
(***************************************************************************)
C1_NoPositiveDurationRaises ==
  (/\ pc # "start"
   /\ AllThreeValues(nodes_arg)
   /\ \A k \in 1..Len(nodes_arg) : ~(nodes_arg[k][3] > 0))
  => (exc = "ValueError" /\ parent = NoObject /\ pc = "raised")

(***************************************************************************)
(* C2.  As claimed: on every valid list, once the steps sum to the total   *)
(* of the durations, the current position is the first waypoint's (x, y).  *)
(* Refuted when the first waypoint has duration 0: the position is then    *)
(* the start of the first positive-duration segment.                       *)
(***************************************************************************)
C2_ClosedLoopAnyValidList ==
  (/\ Advanced
   /\ ValidList(nodes_arg)
   /\ elapsed = TotalDuration(nodes_arg, 1))
  => parent.curr_pos = WaypointPos(nodes_arg, 1)

(***************************************************************************)
(* C2, amended.  On every valid list whose first waypoint has a positive   *)
(* duration, once the steps sum to the total of the durations, the current *)
(* position is the first waypoint's (x, y).                                *)
(***************************************************************************)
C2_ClosedLoop ==
  (/\ Advanced
   /\ ValidList(nodes_arg)
   /\ nodes_arg[1][3] > 0
   /\ elapsed = TotalDuration(nodes_arg, 1))
  => parent.curr_pos = WaypointPos(nodes_arg, 1)

\* A lap of a three-waypoint list completed in several calls, the last one
\* starting inside a segment away from the first waypoint.
C2_Witness ==
  /\ Advanced
  /\ ValidList(nodes_arg)
  /\ Len(nodes_arg) = 3
  /\ nodes_arg[1][3] > 0
  /\ elapsed = TotalDuration(nodes_arg, 1)
  /\ step_in < elapsed
  /\ before.time > 0
  /\ before.curr_pos # WaypointPos(nodes_arg, 1)
  /\ parent.curr_pos = WaypointPos(nodes_arg, 1)

(***************************************************************************)
(* C3.  Step-size independence: whatever non-negative steps were taken,    *)
(* the interpolator is in the segment, at the elapsed time and at the      *)
(* position that one single call with the sum of the steps reaches from    *)
(* the freshly constructed object (so any two step sequences with the same *)
(* total agree).                                                           *)
(***************************************************************************)
C3_StepSizeIndependent ==
  (Advanced /\ ValidList(nodes_arg))
  => LET one == get_next_position(InterpolatedTrajectory(nodes_arg).self, elapsed)
     IN  /\ one.outcome = "return"
         /\ one.self.index = parent.index
         /\ one.self.time = parent.time
         /\ one.self.curr_pos = parent.curr_pos

\* Two calls at least, the last one with a positive step that left a segment
\* entered with time already elapsed in it.
C3_Witness ==
  /\ Advanced
  /\ ValidList(nodes_arg)
  /\ step_in > 0
  /\ step_in < elapsed
  /\ before.time > 0
  /\ parent.index # before.index
  /\ parent.time > 0

(***************************************************************************)
(* C5.  A call whose step carries the walk across one or more zero-        *)
(* duration waypoints passes all of them and ends in the first positive-   *)
(* duration segment reached, with what is left of the step as elapsed      *)
(* time; when nothing is left the elapsed time is 0 and the position is    *)
(* that segment's start waypoint.                                          *)
(***************************************************************************)
C5_ZeroDurationsSkipped ==
  LastCallPassedZero
  => /\ parent.target_time > 0
     /\ <<parent.index + 1, parent.time>> =
          Walk(nodes_arg, before.index + 1, before.time + step_in)
     /\ (parent.time = 0 =>
          parent.curr_pos = WaypointPos(nodes_arg, parent.index + 1))

\* One call that left a positive-duration segment, passed two consecutive
\* zero-duration waypoints and landed exactly on the start of the next one.
C5_Witness ==
  /\ LastCallPassedZero
  /\ Len(nodes_arg) = 3
  /\ before.target_time > 0
  /\ step_in > 0
  /\ nodes_arg[before.next_index + 1][3] = 0
  /\ nodes_arg[((before.index + 2) % 3) + 1][3] = 0
  /\ parent.index = before.index
  /\ parent.time = 0

(***************************************************************************)
(* C6.  After every call on a valid list the current segment has duration  *)
(* D > 0 and the elapsed time e satisfies 0 <= e < D, so the interpolation *)
(* never divides by zero; a current segment of duration 0 is found in the  *)
(* freshly constructed object only.                                        *)
(***************************************************************************)
C6_ElapsedWithinSegment ==
  ((pc # "start" /\ ValidList(nodes_arg)) =>
     /\ exc # "ZeroDivisionError"
     /\ (pc = "ready" /\ parent.target_time = 0 => before = NoObject))
  /\ ((Advanced /\ ValidList(nodes_arg)) =>
        /\ parent.target_time > 0
        /\ 0 <= parent.time
        /\ parent.time < parent.target_time)

\* A first call on an object constructed on a zero-duration waypoint, whose
\* step ends exactly at the end of a segment.
C6_Witness ==
  /\ Advanced
  /\ ValidList(nodes_arg)
  /\ before.target_time = 0
  /\ step_in > 0
  /\ parent.time = 0
  /\ parent.target_time > 0

(***************************************************************************)
(* C8.  Constructing an InterpolatedTrajectory from a list in which some   *)
(* node has not exactly 3 values raises ValueError, wherever that node is  *)
(* and whatever the times of the other nodes.                              *)
(***************************************************************************)
C8_WrongArityRaises ==
  (pc # "start" /\ ~AllThreeValues(nodes_arg))
  => (exc = "ValueError" /\ parent = NoObject /\ pc = "raised")

\* The list [(x, y, 1), (x', y')]: a good node with a positive time first,
\* the node of two values after it.
C8_Witness ==
  /\ pc = "raised"
  /\ exc = "ValueError"
  /\ Len(nodes_arg) = 2
  /\ Len(nodes_arg[1]) = 3
  /\ nodes_arg[1][3] = 1
  /\ Len(nodes_arg[2]) = 2


(***************************************************************************)
(* C7.  Phase bound: as long as every step has had magnitude at most the   *)
(* wrap bound W = 1000 * PI, the phase t of an EllipticTrajectory lies in  *)
(* (-W, W] after each call.                                                *)
(***************************************************************************)
C7_PhaseBound ==
  (pc = "ready" /\ ~et_wide)
  => \A c \in DOMAIN et : 0 - WrapBound < et[c].t /\ et[c].t <= WrapBound

\* A phase brought back by a downward wraparound, after steps of magnitude
\* at most W only.
C7_Witness ==
  /\ pc = "ready"
  /\ ~et_wide
  /\ \E c \in DOMAIN et : et_total[c] <= 0 - WrapBound /\ et[c].t = et_total[c] + WrapBound

(***************************************************************************)
(* C9.  Periodicity across wraparound: the position an EllipticTrajectory  *)
(* reports is the one a sampler of the same rotation and axis lengths      *)
(* reports whose steps sum to the same total modulo the period 2 * PI and  *)
(* which never wrapped: a fresh sampler advanced once by that remainder.   *)
(***************************************************************************)
C9_PeriodicAcrossWrap ==
  pc = "ready"
  => \A c \in DOMAIN et :
       LET fresh == EllipticTrajectory(et[c].rotation, et[c].x_length, et[c].y_length)
           other == ET_get_next_position(fresh, et_total[c] % (2 * PI))
       IN  et[c].curr_pos = other.curr_pos

\* A sampler that has wrapped (its phase is no longer the sum of its steps)
\* and has been advanced since, at a point off the x-axis of the ellipse.
C9_Witness ==
  /\ pc = "ready"
  /\ \E c \in DOMAIN et :
       /\ et[c].t # et_total[c]
       /\ Abs(et[c].t) < WrapBound \div 2
       /\ et_total[c] % (2 * PI) = 1
       /\ et[c].curr_pos # et[c].last_pos


(***************************************************************************)
(* Vocabulary of the claims about main().                                  *)
(***************************************************************************)

\* main() is in or past its loop.
InLoop == pc \in {"loop", "done"}

\* The rotation of et_c.
ChildRotation(c) == conf.rotation + (c - 1) * (PI \div 2)

\* et_c had it been advanced alone, k times by step * ELLIPSE_SCALE.
RECURSIVE LoneChild(_, _)
LoneChild(c, k) ==
  IF k = 0
  THEN EllipticTrajectory(ChildRotation(c), X_LENGTH * Thousandths, Y_LENGTH * Thousandths)
  ELSE ET_get_delta(LoneChild(c, k - 1), conf.child_step).self

\* The delta its k-th call returns.
LoneChildDelta(c, k) == ET_get_delta(LoneChild(c, k - 1), conf.child_step).delta

\* The parent had it been advanced alone, k times by step * PARENT_SCALE.
RECURSIVE LoneParent(_)
LoneParent(k) ==
  IF k = 0 THEN InterpolatedTrajectory(nodes_arg).self
  ELSE get_delta(LoneParent(k - 1), conf.parent_step).self

\* The delta its k-th call returns.
LoneParentDelta(k) == get_delta(LoneParent(k - 1), conf.parent_step).delta

\* A command that carries p exactly, and one that carries p as '.4' writes it.
ExactCommand(op, p) == [op |-> op, x |-> p[1], y |-> p[2]]
RoundedCommand(op, p) == [op |-> op, x |-> Fmt4(p[1]), y |-> Fmt4(p[2])]

\* The delta of the parent's last call, from its own fields.
ParentDeltaNow == PosSub(parent.curr_pos, parent.last_pos)

(***************************************************************************)
(* C4.  As claimed: in every iteration the parent is advanced exactly once *)
(* and the delta emitted for each ellipse equals parent delta + that       *)
(* ellipse's own delta, the ellipse's delta being what it returns when     *)
(* advanced alone.  Refuted: the command carries the sum as '{:.4}' writes *)
(* it, that is rounded to 4 significant digits.                            *)
(***************************************************************************)
C4_AdditiveExact ==
  (InLoop /\ i >= 1)
  => /\ elapsed = i * conf.parent_step
     /\ parent = LoneParent(i)
     /\ \A c \in 1..2 :
          /\ et[c] = LoneChild(c, i)
          /\ path[c][i + 1] =
               ExactCommand("l", PosAdd(ParentDeltaNow, LoneChildDelta(c, i)))

(***************************************************************************)
(* C4, amended.  In every iteration the parent is advanced exactly once,   *)
(* and the delta emitted for each ellipse equals (parent delta of this     *)
(* iteration + that ellipse's own delta of this iteration) component-wise, *)
(* each component rounded to 4 significant digits; the same parent delta   *)
(* is used for both ellipses and each ellipse's delta is what it returns   *)
(* when advanced alone with the same steps.                                *)
(***************************************************************************)
C4_Additive ==
  (InLoop /\ i >= 1)
  => /\ elapsed = i * conf.parent_step
     /\ parent = LoneParent(i)
     /\ \A c \in 1..2 :
          /\ et[c] = LoneChild(c, i)
          /\ path[c][i + 1] =
               RoundedCommand("l", PosAdd(ParentDeltaNow, LoneChildDelta(c, i)))

\* A second iteration in which the parent and both ellipses moved, the two
\* ellipses differently, and a sum did not fit 4 significant digits.
C4_Witness ==
  /\ InLoop
  /\ i >= 2
  /\ ParentDeltaNow[1] # RatOfInt(0)
  /\ ParentDeltaNow[2] # RatOfInt(0)
  /\ LoneChildDelta(1, i) # LoneChildDelta(2, i)
  /\ path[1][i + 1] # path[2][i + 1]
  /\ path[1][i + 1] # ExactCommand("l", PosAdd(ParentDeltaNow, LoneChildDelta(1, i)))

(***************************************************************************)
(* C10.  As claimed: each ellipse's stream is one 'M' command carrying     *)
(* (parent initial position + ellipse initial position), then one 'l'      *)
(* command per iteration in iteration order, 1 + N commands when the loop  *)
(* has stopped after N iterations.  Refuted: the 'M' command carries the   *)
(* sum rounded to 4 significant digits.                                    *)
(***************************************************************************)
C10_StreamShapeExact ==
  /\ (pc = "start" => path = <<>>)
  /\ i <= conf.count
  /\ (pc = "done" => i = conf.count)
  /\ (InLoop =>
        \A c \in 1..2 :
          /\ Len(path[c]) = 1 + i
          /\ path[c][1] = ExactCommand("M", PosAdd(WaypointPos(nodes_arg, 1),
                                                   LoneChild(c, 0).curr_pos))
          /\ \A k \in 1..i : path[c][k + 1].op = "l")

(***************************************************************************)
(* C10, amended.  For each ellipse main() emits exactly one 'M' command,   *)
(* before any sampler is advanced, carrying (parent initial position +     *)
(* ellipse initial position) rounded to 4 significant digits, followed by  *)
(* exactly one 'l' command per iteration, the k-th being that of the k-th  *)
(* iteration; the loop stops after exactly N iterations, so each stream    *)
(* holds 1 + N commands.                                                   *)
(***************************************************************************)
C10_StreamShape ==
  /\ (pc = "start" => path = <<>>)
  /\ i <= conf.count
  /\ (pc = "done" => i = conf.count)
  /\ (InLoop =>
        \A c \in 1..2 :
          /\ Len(path[c]) = 1 + i
          /\ path[c][1] = RoundedCommand("M", PosAdd(WaypointPos(nodes_arg, 1),
                                                     LoneChild(c, 0).curr_pos))
          /\ \A k \in 1..i :
               path[c][k + 1] =
                 RoundedCommand("l", PosAdd(LoneParentDelta(k), LoneChildDelta(c, k))))

\* main() returned after three iterations whose commands differ from one
\* another, the two streams differing too.
C10_Witness ==
  /\ pc = "done"
  /\ i = 3
  /\ Len(path[1]) = 4
  /\ path[1][2] # path[1][3]
  /\ path[1][3] # path[1][4]
  /\ path[1][1] # path[2][1]
  /\ path[1][4] # path[2][4]

(***************************************************************************)
(* C11.  Termination: on every successfully constructed interpolator,      *)
(* every get_delta call with a non-negative step returns: neither the loop *)
(* of lines 104-105 nor that of lines 114-123 runs forever.                *)
(* The constructor accepts lists whose non-zero times are negative, and on *)
(* such an object the loop of line 114 never exits: TLC refutes this       *)
(* statement.                                                              *)
(***************************************************************************)
C11_AdvanceTerminates == pc # "hung"

\* The waypoint (counted from 1) after waypoint k, cyclically.
NextWaypoint(nodes, k) == IF k >= Len(nodes) THEN 1 ELSE k + 1

\* Sum of the durations of n consecutive segments, from that of waypoint k
\* (counted from 1) on, cyclically.
RECURSIVE CrossedDuration(_, _, _)
CrossedDuration(nodes, k, n) ==
  IF n = 0 THEN 0
  ELSE nodes[k][3] + CrossedDuration(nodes, NextWaypoint(nodes, k), n - 1)

(***************************************************************************)
(* C12.  Step consumption: a call with step s >= 0 made in a segment of    *)
(* duration D > 0 with elapsed time e stays in the segment with elapsed    *)
(* time e + s when e + s < D; when e + s >= D it ends n >= 1 segments      *)
(* further in cyclic order, with elapsed time s - (D - e) minus the        *)
(* durations of the n - 1 segments crossed in full, which is >= 0 and less *)
(* than the duration of the segment reached; when e + s = D that segment   *)
(* is the next one of positive duration and the elapsed time is 0.         *)
(***************************************************************************)
C12_StepConsumption ==
  (Advanced /\ ValidList(nodes_arg) /\ before.target_time > 0)
  => LET e == before.time
         D == before.target_time
         s == step_in
         len == Len(nodes_arg)
     IN  IF e + s < D
         THEN parent.index = before.index /\ parent.time = e + s
         ELSE \E n \in 1..(len * (s + 1)) :
                /\ parent.index = (before.index + n) % len
                /\ parent.time =
                     s - (D - e) - CrossedDuration(nodes_arg, before.next_index + 1, n - 1)
                /\ parent.time >= 0
                /\ parent.time < nodes_arg[parent.index + 1][3]
                /\ (e + s = D =>
                      /\ parent.time = 0
                      /\ \A m \in 1..(n - 1) :
                           nodes_arg[((before.index + m) % len) + 1][3] = 0)

\* A call made inside a segment that crossed the rest of it and the whole of
\* the next segment, of positive duration, and ended inside the third.
C12_Witness ==
  /\ Advanced
  /\ ValidList(nodes_arg)
  /\ Len(nodes_arg) = 3
  /\ before.time > 0
  /\ nodes_arg[before.next_index + 1][3] > 0
  /\ parent.index = (before.index + 2) % 3
  /\ parent.time > 0

\* The point of the ellipse of `self` at phase t.
EllipsePoint(self, t) ==
  <<RatOfInt(self.x_length * Cos(t) * Cos(self.rotation)
               - self.y_length * Sin(t) * Sin(self.rotation)),
    RatOfInt(self.x_length * Cos(t) * Sin(self.rotation)
               + self.y_length * Sin(t) * Cos(self.rotation))>>

\* The point of the current segment of `self` at its elapsed time.
SegmentPoint(self) ==
  LET a == self.nodes[self.index + 1]
      b == self.nodes[self.next_index + 1]
  IN  <<Rat(a[1] * self.target_time + (b[1] - a[1]) * self.time, self.target_time),
        Rat(a[2] * self.target_time + (b[2] - a[2]) * self.time, self.target_time)>>

\* This step is an iteration of the loop of main() in which the three
\* get_delta calls returned.
IterationStep == pc = "loop" /\ i' = i + 1

(***************************************************************************)
(* C13.  Delta semantics, for both kinds of trajectory: a get_delta call   *)
(* sets last_pos to the curr_pos held before the call, sets curr_pos to    *)
(* the newly computed position, and returns (new curr_pos - curr_pos       *)
(* before the call) component-wise; the value returned is the one main()   *)
(* adds up and formats into its 'l' command.                               *)
(***************************************************************************)
C13_DeltaSemantics ==
  [][IterationStep =>
       /\ parent'.last_pos = parent.curr_pos
       /\ parent'.curr_pos = SegmentPoint(parent')
       /\ get_delta(parent, conf.parent_step).delta =
            PosSub(parent'.curr_pos, parent.curr_pos)
       /\ \A c \in 1..2 :
            /\ et'[c].last_pos = et[c].curr_pos
            /\ et'[c].curr_pos = EllipsePoint(et[c], et[c].t + conf.child_step)
            /\ ET_get_delta(et[c], conf.child_step).delta =
                 PosSub(et'[c].curr_pos, et[c].curr_pos)
            /\ path'[c][i' + 1] =
                 RoundedCommand("l", PosAdd(PosSub(parent'.curr_pos, parent.curr_pos),
                                            PosSub(et'[c].curr_pos, et[c].curr_pos)))
    ]_vars

\* A second iteration at least, in which the parent and both ellipses moved
\* away from positions that were not their initial ones.
C13_Witness ==
  /\ InLoop
  /\ i >= 2
  /\ parent.curr_pos # parent.last_pos
  /\ parent.last_pos # WaypointPos(nodes_arg, 1)
  /\ \A c \in 1..2 :
       /\ et[c].curr_pos # et[c].last_pos
       /\ et[c].last_pos # LoneChild(c, 0).curr_pos

(***************************************************************************)
(* C14.  Index consistency: in every state of a constructed interpolator,  *)
(* after construction and after any number of calls, index is within       *)
(* 0..len-1, next_index = (index + 1) mod len, and target_time is the time *)
(* of the waypoint at index; the list is the one handed to the constructor.*)
(***************************************************************************)
C14_IndexConsistent ==
  pc = "ready"
  => /\ parent.nodes = nodes_arg
     /\ parent.index \in 0..(Len(parent.nodes) - 1)
     /\ parent.next_index = (parent.index + 1) % Len(parent.nodes)
     /\ parent.target_time = parent.nodes[parent.index + 1][3]

\* A call on a three-waypoint list that went past the last waypoint: the
\* index wrapped to a lower value, the next index is not 0.
C14_Witness ==
  /\ Advanced
  /\ Len(parent.nodes) = 3
  /\ before.index = 2
  /\ parent.index = 1
  /\ parent.next_index = 2
  /\ before.time > 0

\* This step is a get_delta call on the ellipse c.
EllCallStep(c) == pc = "ready" /\ et_calls'[c] = et_calls[c] + 1

(***************************************************************************)
(* C15.  Single correction per step: one get_delta(step) call on an        *)
(* EllipticTrajectory of phase t leaves the phase at t + step - 1000 * PI  *)
(* when t + step >= 1000 * PI, at t + step + 1000 * PI when                *)
(* t + step <= -1000 * PI, and at t + step otherwise; the correction is    *)
(* applied once only, so when t + step >= 2000 * PI the phase is still     *)
(* >= 1000 * PI after the call.                                            *)
(***************************************************************************)
C15_SingleCorrection ==
  [][\A c \in DOMAIN et :
       EllCallStep(c) =>
         LET u == et[c].t + (et_total'[c] - et_total[c])
         IN  /\ u >= WrapBound => et'[c].t = u - WrapBound
             /\ u <= 0 - WrapBound => et'[c].t = u + WrapBound
             /\ (u < WrapBound /\ u > 0 - WrapBound) => et'[c].t = u
             /\ u >= 2 * WrapBound => et'[c].t >= WrapBound
    ]_vars

\* A phase left at or above the wrap bound by a call, and corrected once by
\* a later call with a positive step.
C15_Witness ==
  /\ pc = "ready"
  /\ et_wide
  /\ \E c \in DOMAIN et :
       /\ et[c].t >= WrapBound \div 2
       /\ et[c].t < WrapBound
       /\ et[c].t = et_total[c] - 2 * WrapBound
       /\ et[c].curr_pos # et[c].last_pos

(***************************************************************************)
(* C16.  Initial state: right after construction and before any call, an   *)
(* EllipticTrajectory has phase 0 and last_pos = curr_pos = the point of   *)
(* its ellipse at phase 0, and an InterpolatedTrajectory has index 0, time *)
(* 0 and last_pos = curr_pos = the (x, y) of the first waypoint.           *)
(***************************************************************************)
C16_InitialState ==
  /\ (pc # "start" /\ et_calls = <<0, 0>>) =>
        \A c \in 1..2 :
          /\ et[c].rotation = ChildRotation(c)
          /\ et[c].t = 0
          /\ et[c].last_pos = et[c].curr_pos
          /\ et[c].curr_pos = EllipsePoint(et[c], 0)
  /\ (pc = "loop" /\ i = 0) =>
        /\ parent.nodes = nodes_arg
        /\ parent.index = 0
        /\ parent.time = 0
        /\ parent.last_pos = parent.curr_pos
        /\ parent.curr_pos = WaypointPos(nodes_arg, 1)

\* main() has constructed two ellipses, at different points off the x-axis,
\* and a parent on a list of two waypoints at least, and is about to enter
\* its loop.
C16_Witness ==
  /\ pc = "loop"
  /\ i = 0
  /\ Len(nodes_arg) >= 2
  /\ WaypointPos(nodes_arg, 1) # WaypointPos(nodes_arg, 2)
  /\ et_calls = <<0, 0>>
  /\ et[1].curr_pos # et[2].curr_pos
  /\ et[1].curr_pos[2] # RatOfInt(0)

(***************************************************************************)
(* C17.  Frame: a get_delta call changes only the mutable fields of the    *)
(* object it is called on.  In an iteration of main(), where the parent    *)
(* and the two ellipses each take one call, the waypoint list, the         *)
(* rotation and the axis lengths of each ellipse are unchanged, and each   *)
(* object ends as its own call alone leaves it, whatever the calls on the  *)
(* other two objects did.                                                  *)
(***************************************************************************)
C17_Frame ==
  [][IterationStep =>
       /\ nodes_arg' = nodes_arg
       /\ parent'.nodes = parent.nodes
       /\ parent' = get_delta(parent, conf.parent_step).self
       /\ \A c \in 1..2 :
            /\ et'[c].rotation = et[c].rotation
            /\ et'[c].x_length = et[c].x_length
            /\ et'[c].y_length = et[c].y_length
            /\ et'[c] = ET_get_delta(et[c], conf.child_step).self
    ]_vars

\* An iteration after which the parent is inside a segment other than the
\* first and both ellipses are away from where they were.
C17_Witness ==
  /\ InLoop
  /\ i >= 1
  /\ parent.index > 0
  /\ parent.time > 0
  /\ et[1].t > 0
  /\ et[1].curr_pos # et[1].last_pos
  /\ et[2].curr_pos # et[2].last_pos

\* What main() hands to the format of the 'M' command of ellipse c, and to
\* that of its k-th 'l' command.
SeedPosition(c) == PosAdd(WaypointPos(nodes_arg, 1), LoneChild(c, 0).curr_pos)
CombinedDelta(c, k) == PosAdd(LoneParentDelta(k), LoneChildDelta(c, k))

\* The seed position plus the first k combined deltas, before formatting.
RECURSIVE SeedPlusDeltas(_, _)
SeedPlusDeltas(c, k) ==
  IF k = 0 THEN SeedPosition(c)
  ELSE PosAdd(SeedPlusDeltas(c, k - 1), CombinedDelta(c, k))

\* The position carried by the first command of a stream plus the deltas
\* carried by its next k commands.
RECURSIVE EmittedSum(_, _)
EmittedSum(cmds, k) ==
  IF k = 0 THEN <<cmds[1].x, cmds[1].y>>
  ELSE PosAdd(EmittedSum(cmds, k - 1), <<cmds[k + 1].x, cmds[k + 1].y>>)

(***************************************************************************)
(* C18.  As claimed: after every iteration, for each ellipse, the seed     *)
(* position emitted plus the sum of the deltas emitted so far equals the   *)
(* parent's current position plus the ellipse's current position.          *)
(* Refuted: the values emitted are rounded to 4 significant digits, and    *)
(* the rounded values do not add up to the position.                       *)
(***************************************************************************)
C18_EmittedReconstructs ==
  (InLoop /\ i >= 1)
  => \A c \in 1..2 :
       EmittedSum(path[c], i) = PosAdd(parent.curr_pos, et[c].curr_pos)

(***************************************************************************)
(* C18, amended.  After every iteration, for each ellipse, the seed        *)
(* position (parent initial position + ellipse initial position) plus the  *)
(* sum of the combined deltas (parent delta + ellipse delta) of the        *)
(* iterations so far, as they are before formatting, equals the parent's   *)
(* current position plus the ellipse's current position; each command      *)
(* emitted carries the corresponding term rounded to 4 significant digits. *)
(***************************************************************************)
C18_Reconstructs ==
  (InLoop /\ i >= 1)
  => \A c \in 1..2 :
       /\ SeedPlusDeltas(c, i) = PosAdd(parent.curr_pos, et[c].curr_pos)
       /\ path[c][1] = RoundedCommand("M", SeedPosition(c))
       /\ path[c][i + 1] = RoundedCommand("l", CombinedDelta(c, i))

\* Three iterations in which the parent moved each time and ended inside a
\* segment, and after which the emitted values of the first stream do not
\* add up to the position.
C18_Witness ==
  /\ InLoop
  /\ i = 3
  /\ parent.time > 0
  /\ \A k \in 1..3 : LoneParentDelta(k) # <<RatOfInt(0), RatOfInt(0)>>
  /\ et[1].curr_pos # LoneChild(1, 0).curr_pos
  /\ EmittedSum(path[1], i) # PosAdd(parent.curr_pos, et[1].curr_pos)

\* v lies between the integers a and b, in either order.
Between(v, a, b) ==
  LET lo == IF a <= b THEN a ELSE b
      hi == IF a <= b THEN b ELSE a
  IN  RatLeq(RatOfInt(lo), v) /\ RatLeq(v, RatOfInt(hi))

\* v lies within the range of the j-th values of the nodes.
InRange(v, nodes, j) ==
  /\ \E k \in 1..Len(nodes) : RatLeq(RatOfInt(nodes[k][j]), v)
  /\ \E k \in 1..Len(nodes) : RatLeq(v, RatOfInt(nodes[k][j]))

(***************************************************************************)
(* C19.  On-path invariant: after every call with a non-negative step on a *)
(* valid list, curr_pos is the point start + (end - start) * e / D of the  *)
(* segment from the waypoint at index to the waypoint at next_index, with  *)
(* 0 <= e / D < 1; each coordinate lies between those of the two           *)
(* waypoints, and within the bounding box of the list.                     *)
(***************************************************************************)
C19_OnPath ==
  (Advanced /\ ValidList(nodes_arg))
  => LET a == parent.nodes[parent.index + 1]
         b == parent.nodes[parent.next_index + 1]
     IN  /\ parent.target_time > 0
         /\ 0 <= parent.time
         /\ parent.time < parent.target_time
         /\ parent.curr_pos = SegmentPoint(parent)
         /\ \A j \in 1..2 :
              /\ Between(parent.curr_pos[j], a[j], b[j])
              /\ InRange(parent.curr_pos[j], nodes_arg, j)
              /\ (a[j] # b[j] => parent.curr_pos[j] # RatOfInt(b[j]))

\* A call that ended half-way along a segment whose ends differ in both
\* coordinates, reached from another segment.
C19_Witness ==
  /\ Advanced
  /\ ValidList(nodes_arg)
  /\ parent.index # before.index
  /\ parent.target_time = 2
  /\ parent.time = 1
  /\ parent.curr_pos[1][2] = 2
  /\ parent.curr_pos[2][2] = 2

=============================================================================
